---- MODULE Spec2Model ----
(***************************************************************************)
(* The Z5D candidate pipeline of experiments/z5d-comprehensive-challenge:  *)
(* the band prioritizer and adaptive stepper of z5d_api.py, the lazy       *)
(* generator generate_z5d_candidates and the driver z5d_pipeline_search of *)
(* z5d_pipeline.py, together with the process-wide mpmath precision        *)
(* register (mp.dps) the generator sets with mp.workdps.                   *)
(*                                                                         *)
(* Integers.  A Python integer x is written as a pair (mag, lo) with       *)
(* x = Base(mag) + lo, where Base(0) = 0 and, for mag >= 1, Base(mag) is a *)
(* multiple of 210 far beyond the machine range (210 * 2^144): the adaptive*)
(* step only leaves 1 when ln(x) >= 100, so the even steps that let the    *)
(* negative branch emit, and the odd steps above 1, exist at such          *)
(* magnitudes only.  All integers of one generator instance share its mag, *)
(* and only lo is stored.                                                  *)
(*                                                                         *)
(* Floats.  A density d is written as the integer d * DensityScale; the    *)
(* natural logarithm is written in thousandths.                            *)
(***************************************************************************)
EXTENDS Integers, Sequences, FiniteSets, TLC

----------------------------------------------------------------------------
(* Bounds of the model *)

\* largest sqrt_N (its lo part) handed to a generator by the free consumer
MaxSqrt == 13
\* largest delta_max
MaxDelta == 5
\* largest num_bands
MaxBands == 2
\* largest max_candidates of the search driver
MaxBudget == 2
\* largest N handed to z5d_pipeline_search (besides the gate-1 call)
MaxN == 150
\* the precision the free consumer assigns to mp.dps
ConsumerDps == 50
\* largest N of a search whose window reaches N itself (delta_max = N)
MaxWideN == 13
\* largest base_step handed to adaptive_step_size in a direct call
MaxBaseStep == 3
\* densities of direct calls run from -1/2000 to MaxDensityK/2000
MaxDensityK == 50
\* largest |x| (its lo part) of a direct call of local_prime_density,
\* largest N (its lo part) of a direct call of adaptive_precision
MaxArg == 70
\* largest |center| (its lo part) and delta of a direct call of
\* density_in_range
MaxCenter == 20
MaxHalfWidth == 5
\* largest argument of a direct call of is_admissible, next_admissible
MaxWheelArg == 220

----------------------------------------------------------------------------
(* Arithmetic helpers *)

Max(a, b) == IF a >= b THEN a ELSE b

Min(a, b) == IF a <= b THEN a ELSE b

Abs(a) == IF a < 0 THEN -a ELSE a

\* int.bit_length()
RECURSIVE bit_length(_)
bit_length(n) == IF Abs(n) = 0 THEN 0 ELSE 1 + bit_length(Abs(n) \div 2)

\* math.isqrt: Newton's iteration on integers, floor of the square root
RECURSIVE IsqrtIter(_, _)
IsqrtIter(n, x) ==
    LET y == (x + n \div x) \div 2
    IN IF y < x THEN IsqrtIter(n, y) ELSE x

isqrt(n) == IF n = 0 THEN 0 ELSE IsqrtIter(n, n)

\* magnitude classes of the generator's arguments: 0 is the machine range
\* (step 1), 1 is Base = 210 * 2^144 (step 2), 5 is Base = 210 * 2^212
\* (step 3)
Mags == {0, 1, 5}

\* further magnitude classes, for direct calls of the API functions:
\* Base(2) = 210 * 2^119 (127 bits), Base(3) = 210 * 2^322 (330 bits),
\* Base(4) = 210 * 2^1020 (1028 bits, beyond the largest float),
\* Base(5) = 210 * 2^212 (220 bits)
AllMags == 0..5

\* bit length of Base(mag) + lo for the small lo >= 0 of the model
BaseBits(mag) ==
    CASE mag = 0 -> 0
      [] mag = 1 -> 152
      [] mag = 2 -> 127
      [] mag = 3 -> 330
      [] mag = 5 -> 220
      [] OTHER -> 1028

\* float(x) raises OverflowError for x = Base(mag) + lo: x >= 2^1024
FloatOverflows(mag) == mag = 4

\* x > 1 for x = Base(mag) + lo
GreaterThanOne(mag, lo) == mag > 0 \/ lo > 1

----------------------------------------------------------------------------
(* wheel_residues: the 210-wheel *)

WHEEL_MODULUS == 210

\* faulty variant: the residue table of the 30-wheel, which lacks the prime 7
IsAdmissibleWheel30(n) ==
    LET r == n % WHEEL_MODULUS
    IN r % 2 # 0 /\ r % 3 # 0 /\ r % 5 # 0

\* free of the wheel primes 2, 3, 5, 7 (Base(mag) is a multiple of 210)
is_admissible(n) ==
    LET r == n % WHEEL_MODULUS
    IN r % 2 # 0 /\ r % 3 # 0 /\ r % 5 # 0 /\ r % 7 # 0

\* least admissible value >= n; two admissible residues are at most 10 apart
next_admissible(n) ==
    CHOOSE m \in n..(n + 10) :
        is_admissible(m) /\ \A k \in n..(m - 1) : ~is_admissible(k)

----------------------------------------------------------------------------
(* z5d_pipeline.adaptive_precision *)

\* faulty variant: two digits per bit
AdaptivePrecisionTwoPerBit(mag, N) ==
    LET bits == IF mag = 0 THEN bit_length(N) ELSE BaseBits(mag)
    IN Max(100, bits * 2 + 200)

adaptive_precision(mag, N) ==
    LET bits == IF mag = 0 THEN bit_length(N) ELSE BaseBits(mag)
    IN Max(100, bits * 4 + 200)

----------------------------------------------------------------------------
(* z5d_api: the density oracle *)

\* a density d is the integer d * DensityScale
DensityScale == 6000000

\* floor(1000 * ln(x)) for x in 2..63
LnTable ==
    <<0, 693, 1098, 1386, 1609, 1791, 1945, 2079, 2197, 2302, 2397, 2484,
      2564, 2639, 2708, 2772, 2833, 2890, 2944, 2995, 3044, 3091, 3135,
      3178, 3218, 3258, 3295, 3332, 3367, 3401, 3433, 3465, 3496, 3526,
      3555, 3583, 3610, 3637, 3663, 3688, 3713, 3737, 3761, 3784, 3806,
      3828, 3850, 3871, 3891, 3912, 3931, 3951, 3970, 3988, 4007, 4025,
      4043, 4060, 4077, 4094, 4110, 4127, 4143>>

\* floor(1000 * ln 2)
Ln2Milli == 693

\* math.log in thousandths: x = m * 2^k with m < 64, ln(x) = ln(m) + k ln 2
RECURSIVE LnMilliSmall(_)
LnMilliSmall(x) ==
    IF x < 64 THEN LnTable[x] ELSE Ln2Milli + LnMilliSmall(x \div 2)

\* math.log(x) for x = Base(mag) + lo: float(Base + lo) = float(Base) for
\* every lo of the model; ln(210 * 2^144) = 105.160, ln(210 * 2^119) = 87.831,
\* ln(210 * 2^322) = 228.540, ln(210 * 2^1020) = 712.357,
\* ln(210 * 2^212) = 152.294
LnMilli(mag, x) ==
    CASE mag = 0 -> LnMilliSmall(x)
      [] mag = 1 -> 105160
      [] mag = 2 -> 87831
      [] mag = 3 -> 228540
      [] mag = 5 -> 152294
      [] OTHER -> 712357

\* z5d_api.local_prime_density, in millionths
local_prime_density(mag, x) ==
    IF mag = 0 /\ x < 2 THEN 0 ELSE 1000000000 \div LnMilli(mag, x)

\* z5d_api.density_in_range: (rho_low + 4 rho_mid + rho_high) / 6
density_in_range(mag, center, delta) ==
    LET rho_low == local_prime_density(mag, center - delta)
        rho_mid == local_prime_density(mag, center)
        rho_high == local_prime_density(mag, center + delta)
    IN rho_low + 4 * rho_mid + rho_high

\* density_in_range converts center - delta, center and center + delta with
\* float() before it samples the density: lines 113-115
density_in_range_raises(mag, center, delta) == FloatOverflows(mag)

\* faulty variant: the fallback for a density <= 0 is the base step itself
AdaptiveStepSizeFallbackBase(density, base_step) ==
    IF density <= 0
    THEN base_step
    ELSE Min(Max(1, (base_step * DensityScale) \div (density * 50)), 10)

\* faulty variant: the step is not raised to 1 when the quotient is below 1
AdaptiveStepSizeNoFloor(density, base_step) ==
    IF density <= 0
    THEN base_step * 10
    ELSE Min((base_step * DensityScale) \div (density * 50), 10)

\* z5d_api.adaptive_step_size
adaptive_step_size(density, base_step) ==
    IF density <= 0
    THEN base_step * 10
    ELSE Min(Max(1, (base_step * DensityScale) \div (density * 50)), 10)

----------------------------------------------------------------------------
(* z5d_api.prioritize_delta_bands *)

\* the band built by iteration i of the loop (i = 0 .. num_bands - 1)
MakeBand(mag, sqrt_N, delta_max, band_width, i) ==
    LET delta_start == i * band_width
        delta_end == Min((i + 1) * band_width, delta_max)
        center_offset == (delta_start + delta_end) \div 2
    IN [center |-> sqrt_N + center_offset,
        delta_start |-> delta_start,
        delta_end |-> delta_end,
        density |-> density_in_range(mag, sqrt_N + center_offset,
                                     band_width \div 2),
        priority |-> i]

\* faulty variant: an unstable insertion, b goes in front of the bands whose
\* density equals its own
RECURSIVE InsertDescTiesFirst(_, _)
InsertDescTiesFirst(sorted, b) ==
    IF sorted = <<>> THEN <<b>>
    ELSE IF Head(sorted).density > b.density
         THEN <<Head(sorted)>> \o InsertDescTiesFirst(Tail(sorted), b)
         ELSE <<b>> \o sorted

\* one step of a stable insertion into a list sorted by density, descending:
\* b goes after every band whose density is >= its own
RECURSIVE InsertDesc(_, _)
InsertDesc(sorted, b) ==
    IF sorted = <<>> THEN <<b>>
    ELSE IF Head(sorted).density >= b.density
         THEN <<Head(sorted)>> \o InsertDesc(Tail(sorted), b)
         ELSE <<b>> \o sorted

\* faulty variant: the list is left in offset order
SortByDensityOmitted(bands) == bands

\* bands.sort(key = density, reverse = True): Python's sort is stable
RECURSIVE SortByDensity(_)
SortByDensity(bands) ==
    IF bands = <<>> THEN <<>>
    ELSE InsertDesc(SortByDensity(SubSeq(bands, 1, Len(bands) - 1)),
                    bands[Len(bands)])

\* lines 162-163: the priorities are reassigned in the sorted order
Prioritized(sorted) ==
    [j \in 1..Len(sorted) |-> [sorted[j] EXCEPT !.priority = j - 1]]

\* num_bands = 0 divides by zero (raised by the caller's pull); a negative
\* num_bands gives an empty range and an empty list
prioritize_delta_bands(mag, sqrt_N, delta_max, num_bands) ==
    IF num_bands <= 0 THEN <<>>
    ELSE LET band_width == delta_max \div num_bands
             bands == [j \in 1..num_bands |->
                          MakeBand(mag, sqrt_N, delta_max, band_width, j - 1)]
         IN \* the list is built once and sorted once
            CHOOSE r \in {Prioritized(sorted) :
                             sorted \in {SortByDensity(b) : b \in {bands}}} :
                TRUE

----------------------------------------------------------------------------
(* z5d_pipeline.compute_gva_amplitude *)

\* The amplitude is the float distance between the candidate's embedding and
\* the precomputed embedding of sqrt_N.  Every mpmath operation rounds to the
\* precision in force, so the value is a function of the candidate, of the
\* precision the embedding of sqrt_N was computed under, and of the precision
\* in force at the call: it is kept as that triple.
compute_gva_amplitude(candidate, sqrt_N_embedding, dps) ==
    <<candidate, sqrt_N_embedding, dps>>

\* the pipeline with the Geodesic Ranker removed: every amplitude is 0
ZeroAmplitude == <<0, 0, 0>>

----------------------------------------------------------------------------
(* State *)

VARIABLES
    prec,      \* mp.dps, the process-wide precision register of mpmath
    gen,       \* gen[i]: one generate_z5d_candidates generator object
    drv,       \* the frame of one z5d_pipeline_search call (on gen[1])
    tampered,  \* history: the consumer has assigned mp.dps itself
    api        \* the frame of one direct call of a function of the API

vars == <<prec, gen, drv, tampered, api>>

Gens == {1, 2}

\* mpmath's default mp.dps
DefaultDps == 15

NoRecord ==
    [candidate |-> 0, delta |-> 0, residue |-> 0, density |-> 0,
     amplitude |-> ZeroAmplitude, band_id |-> -1, step |-> 0]

\* a generator object before its first pull: the arguments of the call
NewGen(mag, N, sqrt_N, delta_max, num_bands, ranker) ==
    [mag |-> mag, N |-> N, sqrt_N |-> sqrt_N, delta_max |-> delta_max,
     num_bands |-> num_bands, ranker |-> ranker,
     pc |-> "new",            \* new, pos (line 156), neg (line 176),
                              \* done, error, closed
     origp |-> 0,             \* workdps: the precision saved on entry
     emb_dps |-> 0,           \* precision sqrt_N_embedding was computed under
     bands |-> <<>>,
     band_idx |-> 0,
     current_delta |-> 0,
     count |-> 0,             \* records yielded so far
     last |-> NoRecord]       \* the record yielded by the latest pull

Suspended(g) == g.pc \in {"pos", "neg"}

Finished(g) == g.pc \in {"done", "error", "closed"}

----------------------------------------------------------------------------
(* z5d_pipeline.generate_z5d_candidates *)

\* mp.workdps(required_dps).__enter__: the register takes the new precision
WorkdpsEnter(required_dps, current) == required_dps

\* faulty variant: the exit leaves the register as it finds it
WorkdpsExitKeeps(origp, current) == current

\* mp.workdps(...).__exit__: the register takes the saved precision back
WorkdpsExit(origp, current) == origp

\* faulty variant: the negative branch without the wheel filter
NegativeAdmittedUnfiltered(mag, delta_max, current_delta, neg_candidate) ==
    /\ current_delta <= delta_max
    /\ GreaterThanOne(mag, neg_candidate)

\* the guard of the negative branch, lines 170-172
NegativeAdmitted(mag, delta_max, current_delta, neg_candidate) ==
    /\ current_delta <= delta_max
    /\ GreaterThanOne(mag, neg_candidate)
    /\ is_admissible(neg_candidate)

\* the step of the band at position b (0-based) of the prioritized list
BandStep(bands, b) == adaptive_step_size(bands[b + 1].density, 1)

Exhausted(b, d) ==
    [yield |-> FALSE, band_idx |-> b, current_delta |-> d, candidate |-> 0]

Yielded(b, d, candidate) ==
    [yield |-> TRUE, band_idx |-> b, current_delta |-> d,
     candidate |-> candidate]

\* faulty variant: the band is left when the jump lands on delta_end itself
RECURSIVE ScanBreaksAtEnd(_, _, _, _)
ScanBreaksAtEnd(sqrt_N, bands, b, d) ==
    IF b >= Len(bands) THEN Exhausted(b, d)
    ELSE LET delta_end == bands[b + 1].delta_end
             candidate == sqrt_N + d
             jumped == next_admissible(candidate)
             NextBand ==
                 IF b + 1 < Len(bands)
                 THEN ScanBreaksAtEnd(sqrt_N, bands, b + 1,
                                      bands[b + 2].delta_start)
                 ELSE Exhausted(b + 1, d)
         IN IF ~(d <= delta_end) THEN NextBand
            ELSE IF is_admissible(candidate) THEN Yielded(b, d, candidate)
            ELSE IF jumped - sqrt_N >= delta_end THEN NextBand
            ELSE Yielded(b, jumped - sqrt_N, jumped)

\* faulty variant: the value reached by the jump is yielded without the
\* comparison with the band's end
RECURSIVE ScanJumpUnchecked(_, _, _, _)
ScanJumpUnchecked(sqrt_N, bands, b, d) ==
    IF b >= Len(bands) THEN Exhausted(b, d)
    ELSE LET delta_end == bands[b + 1].delta_end
             candidate == sqrt_N + d
             jumped == next_admissible(candidate)
             NextBand ==
                 IF b + 1 < Len(bands)
                 THEN ScanJumpUnchecked(sqrt_N, bands, b + 1,
                                        bands[b + 2].delta_start)
                 ELSE Exhausted(b + 1, d)
         IN IF ~(d <= delta_end) THEN NextBand
            ELSE IF is_admissible(candidate) THEN Yielded(b, d, candidate)
            ELSE Yielded(b, jumped - sqrt_N, jumped)

\* faulty variant: the while loop stops before the band's last offset
RECURSIVE ScanStopsBeforeEnd(_, _, _, _)
ScanStopsBeforeEnd(sqrt_N, bands, b, d) ==
    IF b >= Len(bands) THEN Exhausted(b, d)
    ELSE LET delta_end == bands[b + 1].delta_end
             candidate == sqrt_N + d
             jumped == next_admissible(candidate)
             NextBand ==
                 IF b + 1 < Len(bands)
                 THEN ScanStopsBeforeEnd(sqrt_N, bands, b + 1,
                                         bands[b + 2].delta_start)
                 ELSE Exhausted(b + 1, d)
         IN IF ~(d < delta_end) THEN NextBand
            ELSE IF is_admissible(candidate) THEN Yielded(b, d, candidate)
            ELSE IF jumped - sqrt_N > delta_end THEN NextBand
            ELSE Yielded(b, jumped - sqrt_N, jumped)

\* The loops of lines 126-148, run from the head of the while loop of band b
\* with current_delta = d up to the next positive yield or to exhaustion.
RECURSIVE Scan(_, _, _, _)
Scan(sqrt_N, bands, b, d) ==
    IF b >= Len(bands) THEN Exhausted(b, d)
    ELSE LET delta_end == bands[b + 1].delta_end
             candidate == sqrt_N + d
             jumped == next_admissible(candidate)
             NextBand ==
                 IF b + 1 < Len(bands)
                 THEN Scan(sqrt_N, bands, b + 1, bands[b + 2].delta_start)
                 ELSE Exhausted(b + 1, d)
         IN IF ~(d <= delta_end) THEN NextBand
            ELSE IF is_admissible(candidate) THEN Yielded(b, d, candidate)
            ELSE IF jumped - sqrt_N > delta_end THEN NextBand
            ELSE Yielded(b, jumped - sqrt_N, jumped)

\* faulty variant: the residue is taken on the positive side of sqrt_N also
\* for a negative candidate
RecordResidueOfPositive(g, bands, b, candidate, delta, emb_dps, dps) ==
    [candidate |-> candidate,
     delta |-> delta,
     residue |-> (g.sqrt_N + Abs(delta)) % WHEEL_MODULUS,
     density |-> bands[b + 1].density,
     amplitude |-> IF g.ranker
                   THEN compute_gva_amplitude(candidate, emb_dps, dps)
                   ELSE ZeroAmplitude,
     band_id |-> b,
     step |-> adaptive_step_size(bands[b + 1].density, 1)]

\* the dict of lines 156-164 and 176-184
Record(g, bands, b, candidate, delta, emb_dps, dps) ==
    [candidate |-> candidate,
     delta |-> delta,
     residue |-> candidate % WHEEL_MODULUS,
     density |-> bands[b + 1].density,
     amplitude |-> IF g.ranker
                   THEN compute_gva_amplitude(candidate, emb_dps, dps)
                   ELSE ZeroAmplitude,
     band_id |-> b,
     step |-> BandStep(bands, b)]

\* faulty variant: a candidate whose amplitude is 0 is dropped and the sequence ends
AfterScanGated(g, dps, r) ==
    IF r.yield /\ Record(g, g.bands, r.band_idx, r.candidate, r.current_delta,
                         g.emb_dps, dps).amplitude # ZeroAmplitude
    THEN [gen |-> [g EXCEPT !.pc = "pos",
                            !.band_idx = r.band_idx,
                            !.current_delta = r.current_delta,
                            !.count = @ + 1,
                            !.last = Record(g, g.bands, r.band_idx,
                                            r.candidate, r.current_delta,
                                            g.emb_dps, dps)],
          prec |-> dps]
    ELSE [gen |-> [g EXCEPT !.pc = "done",
                            !.band_idx = r.band_idx,
                            !.current_delta = r.current_delta],
          prec |-> WorkdpsExit(g.origp, dps)]

\* the generator after a scan r that started with the register at dps: it is
\* suspended at the positive yield, or it has left the with block
AfterScan(g, dps, r) ==
    IF r.yield
    THEN [gen |-> [g EXCEPT !.pc = "pos",
                            !.band_idx = r.band_idx,
                            !.current_delta = r.current_delta,
                            !.count = @ + 1,
                            !.last = Record(g, g.bands, r.band_idx,
                                            r.candidate, r.current_delta,
                                            g.emb_dps, dps)],
          prec |-> dps]
    ELSE [gen |-> [g EXCEPT !.pc = "done",
                            !.band_idx = r.band_idx,
                            !.current_delta = r.current_delta],
          prec |-> WorkdpsExit(g.origp, dps)]

\* the first pull once line 115 has computed the bands: the scan from the
\* first band
FirstPullWith(g, p, bands) ==
    LET required_dps == adaptive_precision(g.mag, g.N)
        dps == WorkdpsEnter(required_dps, p)
        entered == [g EXCEPT !.origp = p, !.emb_dps = dps]
        started == [entered EXCEPT !.bands = bands]
    IN IF g.num_bands = 0
       THEN \* delta_max // num_bands raises ZeroDivisionError in the with
            [gen |-> [entered EXCEPT !.pc = "error"],
             prec |-> WorkdpsExit(p, dps)]
       ELSE IF bands = <<>>
       THEN AfterScan(started, dps, Exhausted(0, 0))
       ELSE AfterScan(started, dps,
                      Scan(g.sqrt_N, bands, 0, bands[1].delta_start))

\* the first pull: lines 108-115 (the bands are computed once), then the
\* scan
FirstPull(g, p) ==
    CHOOSE r \in {FirstPullWith(g, p, bands) :
                     bands \in {prioritize_delta_bands(g.mag, g.sqrt_N,
                                                       g.delta_max,
                                                       g.num_bands)}} : TRUE

\* faulty variant: the negative candidate mirrors the offset just yielded,
\* sqrt_N - d, instead of the advanced one
ResumePosMirrorsOffset(g, p) ==
    LET current_delta == g.current_delta + BandStep(g.bands, g.band_idx)
        neg_candidate == g.sqrt_N - g.current_delta
        advanced == [g EXCEPT !.current_delta = current_delta]
    IN IF NegativeAdmitted(g.mag, g.delta_max, current_delta, neg_candidate)
       THEN [gen |-> [advanced EXCEPT
                         !.pc = "neg",
                         !.count = @ + 1,
                         !.last = Record(g, g.bands, g.band_idx,
                                         neg_candidate, -g.current_delta,
                                         g.emb_dps, p)],
             prec |-> p]
       ELSE AfterScan(advanced, p,
                      Scan(g.sqrt_N, g.bands, g.band_idx, current_delta))

\* faulty variant: after the positive yield the scan goes back to the first
\* band
ResumePosBacktracks(g, p) ==
    LET current_delta == g.current_delta + BandStep(g.bands, g.band_idx)
        neg_candidate == g.sqrt_N - current_delta
        advanced == [g EXCEPT !.current_delta = current_delta]
    IN IF NegativeAdmitted(g.mag, g.delta_max, current_delta, neg_candidate)
       THEN [gen |-> [advanced EXCEPT
                         !.pc = "neg",
                         !.count = @ + 1,
                         !.last = Record(g, g.bands, g.band_idx,
                                         neg_candidate, -current_delta,
                                         g.emb_dps, p)],
             prec |-> p]
       ELSE AfterScan(advanced, p, Scan(g.sqrt_N, g.bands, 0, current_delta))

\* a pull on a generator suspended at the positive yield: lines 167-184
ResumePos(g, p) ==
    LET current_delta == g.current_delta + BandStep(g.bands, g.band_idx)
        neg_candidate == g.sqrt_N - current_delta
        advanced == [g EXCEPT !.current_delta = current_delta]
    IN IF NegativeAdmitted(g.mag, g.delta_max, current_delta, neg_candidate)
       THEN [gen |-> [advanced EXCEPT
                         !.pc = "neg",
                         !.count = @ + 1,
                         !.last = Record(g, g.bands, g.band_idx,
                                         neg_candidate, -current_delta,
                                         g.emb_dps, p)],
             prec |-> p]
       ELSE AfterScan(advanced, p,
                      Scan(g.sqrt_N, g.bands, g.band_idx, current_delta))

\* a pull on a generator suspended at the negative yield: back to line 136
ResumeNeg(g, p) ==
    AfterScan(g, p, Scan(g.sqrt_N, g.bands, g.band_idx, g.current_delta))

\* next(generator) with the register at p: the generator and the register
\* when the pull returns (a record, StopIteration or an exception)
GenNext(g, p) ==
    CASE g.pc = "new" -> FirstPull(g, p)
      [] g.pc = "pos" -> ResumePos(g, p)
      [] g.pc = "neg" -> ResumeNeg(g, p)
      [] OTHER -> [gen |-> g, prec |-> p]

\* generator.close(): GeneratorExit is raised at the yield and leaves the
\* with block; a generator never started has no frame to unwind
GenClose(g, p) ==
    IF Suspended(g)
    THEN [gen |-> [g EXCEPT !.pc = "closed"], prec |-> WorkdpsExit(g.origp, p)]
    ELSE [gen |-> [g EXCEPT !.pc = "closed"], prec |-> p]

----------------------------------------------------------------------------
(* z5d_pipeline.z5d_pipeline_search *)

\* None
NoResult == <<>>

\* faulty variant: the candidate is reported without the divisibility test
SearchIterationUntested(d, g) ==
    IF g.pc = "error" THEN [d EXCEPT !.pc = "raised"]
    ELSE IF g.pc = "done" THEN [d EXCEPT !.pc = "returned"]
    ELSE [d EXCEPT !.pc = "returned",
                   !.result = <<g.last.candidate,
                                d.N \div g.last.candidate>>]

\* faulty variant: the budget test lets one candidate too many through
SearchIterationOverBudget(d, g) ==
    IF g.pc = "error" THEN [d EXCEPT !.pc = "raised"]
    ELSE IF g.pc = "done" THEN [d EXCEPT !.pc = "returned"]
    ELSE LET candidate == g.last.candidate
         IN IF d.N % candidate = 0
            THEN [d EXCEPT !.pc = "returned",
                           !.result = <<candidate, d.N \div candidate>>]
            ELSE IF d.tested + 1 > d.max_candidates
            THEN [d EXCEPT !.pc = "returned", !.tested = @ + 1]
            ELSE [d EXCEPT !.tested = @ + 1]

\* one iteration of the for loop of lines 221-241 on the pulled generator g
SearchIteration(d, g) ==
    IF g.pc = "error" THEN [d EXCEPT !.pc = "raised"]
    ELSE IF g.pc = "done" THEN [d EXCEPT !.pc = "returned"]
    ELSE LET candidate == g.last.candidate
         IN IF d.N % candidate = 0
            THEN [d EXCEPT !.pc = "returned",
                           !.result = <<candidate, d.N \div candidate>>]
            ELSE IF d.tested + 1 >= d.max_candidates
            THEN [d EXCEPT !.pc = "returned", !.tested = @ + 1]
            ELSE [d EXCEPT !.tested = @ + 1]

----------------------------------------------------------------------------
(* Initial states *)

\* the validation gate of test_small_semiprime_search and test_gate1_30bit
Gate1N == 1073217479
Gate1DeltaMax == 5000
Gate1Bands == 3
Gate1Budget == 10000

DeltaChoices == (-1)..MaxDelta

BandChoices == (-1)..MaxBands

Idle == [pc |-> "idle", N |-> 0, max_candidates |-> 0, tested |-> 0,
         result |-> NoResult]

Running(N, max_candidates) ==
    [pc |-> "running", N |-> N, max_candidates |-> max_candidates,
     tested |-> 0, result |-> NoResult]

\* A consumer holding two generator objects.  The first is called for
\* N = sqrt_N^2; the second with the same arguments ("same"), with the
\* ranker removed ("zero"), or for a machine-range N of another bit length
\* ("other").
InitFreeTwins(twins) ==
    \E mag \in Mags, sqrt_N \in 0..MaxSqrt, delta_max \in DeltaChoices,
       num_bands \in BandChoices, twin \in twins :
        LET N1 == sqrt_N * sqrt_N
            N2 == IF twin # "other" THEN N1
                  ELSE IF mag = 0 THEN 16 * N1 + 16 ELSE N1
            mag2 == IF twin = "other" THEN 0 ELSE mag
        IN /\ gen = [i \in Gens |->
                       IF i = 1
                       THEN NewGen(mag, N1, sqrt_N, delta_max, num_bands, TRUE)
                       ELSE NewGen(mag2, N2, sqrt_N, delta_max, num_bands,
                                   twin # "zero")]
           /\ drv = Idle

InitFree == InitFreeTwins({"same", "other", "zero"})

\* searches of a small N >= 4 with one band whose window reaches N itself,
\* as the default delta_max = 100000 does for every small N
WideCalls == {<<n, b, n, 1>> : n \in 4..MaxWideN, b \in 0..MaxBudget}

\* a call z5d_pipeline_search(N, max_candidates, delta_max, num_bands):
\* line 207 computes sqrt_N, line 221 creates the generator
InitSearch ==
    \E call \in ((0..MaxN) \X (0..MaxBudget) \X DeltaChoices \X BandChoices)
                \cup {<<Gate1N, Gate1Budget, Gate1DeltaMax, Gate1Bands>>}
                \cup WideCalls :
        /\ gen = [i \in Gens |->
                    NewGen(0, call[1], isqrt(call[1]), call[3], call[4], TRUE)]
        /\ drv = Running(call[1], call[2])

\* no direct call of an API function is under way
NoCall == [fn |-> "none", args |-> <<>>, pc |-> "none", result |-> 0]

Init ==
    /\ prec = DefaultDps
    /\ tampered = FALSE
    /\ api = NoCall
    /\ (InitFree \/ InitSearch)

----------------------------------------------------------------------------
(* Actions *)

\* the free consumer pulls generator i; a pull on a finished generator
\* raises StopIteration and changes nothing
Pull(i) ==
    /\ drv.pc = "idle"
    /\ \E r \in {GenNext(gen[i], prec)} :
          /\ gen' = [gen EXCEPT ![i] = r.gen]
          /\ prec' = r.prec
    /\ UNCHANGED <<drv, tampered, api>>

\* generator i is closed: by the free consumer at any time, by the collector
\* once z5d_pipeline_search has returned and dropped it
Close(i) ==
    /\ ~Finished(gen[i])
    /\ \/ drv.pc = "idle"
       \/ i = 1 /\ drv.pc \in {"returned", "raised"}
    /\ LET r == GenClose(gen[i], prec)
       IN /\ gen' = [gen EXCEPT ![i] = r.gen]
          /\ prec' = r.prec
    /\ UNCHANGED <<drv, tampered, api>>

\* the free consumer assigns mp.dps between two pulls
SetPrecision ==
    /\ drv.pc = "idle"
    /\ prec # ConsumerDps
    /\ prec' = ConsumerDps
    /\ tampered' = TRUE
    /\ UNCHANGED <<gen, drv, api>>

\* one iteration of the for loop of z5d_pipeline_search
SearchStep ==
    /\ drv.pc = "running"
    /\ LET r == GenNext(gen[1], prec)
       IN /\ gen' = [gen EXCEPT ![1] = r.gen]
          /\ prec' = r.prec
          /\ drv' = SearchIteration(drv, r.gen)
    /\ UNCHANGED <<tampered, api>>

Next ==
    \/ \E i \in Gens : Pull(i)
    \/ \E i \in Gens : Close(i)
    \/ SetPrecision
    \/ SearchStep

Spec == Init /\ [][Next]_vars

\* A consumer that keeps pulling the first generator: it never closes it,
\* never assigns the register, and a pull that can still change the
\* generator is not put off forever (the for loop of the consumer runs on).
InitPull ==
    /\ prec = DefaultDps
    /\ tampered = FALSE
    /\ api = NoCall
    /\ InitFreeTwins({"same"})

NextPull == Pull(1)

SpecPull == InitPull /\ [][NextPull]_vars /\ WF_vars(Pull(1))

----------------------------------------------------------------------------
(* Direct calls of the functions of the API *)

Pending(fn, args) == [fn |-> fn, args |-> args, pc |-> "pending", result |-> 0]

\* densities k / 2000 for k = -1 .. MaxDensityK, and the density 1
StepDensities ==
    {(k * DensityScale) \div 2000 : k \in (-1)..MaxDensityK} \cup {DensityScale}

PendingCalls ==
    {Pending("adaptive_step_size", <<d, b>>) :
        d \in StepDensities, b \in 1..MaxBaseStep}
    \cup {Pending("adaptive_precision", <<m, n>>) :
              m \in AllMags, n \in 0..MaxArg}
    \cup {Pending("local_prime_density", <<m, x>>) :
              m \in AllMags, x \in (-MaxArg)..MaxArg}
    \cup {Pending("density_in_range", <<m, c, d>>) :
              m \in AllMags, c \in (-MaxCenter)..MaxCenter,
              d \in 0..MaxHalfWidth}
    \cup {Pending("is_admissible", <<n>>) : n \in 0..MaxWheelArg}
    \cup {Pending("next_admissible", <<n>>) : n \in 0..MaxWheelArg}
    \cup {Pending("prioritize_delta_bands", <<m, s, d, n>>) :
              m \in Mags, s \in 0..MaxSqrt, d \in DeltaChoices,
              n \in BandChoices}

\* a script that has created no generator it pulls and calls one function
InitApi ==
    /\ prec = DefaultDps
    /\ tampered = FALSE
    /\ gen = [i \in Gens |-> NewGen(0, 0, 0, 0, 0, TRUE)]
    /\ drv = Idle
    /\ api \in PendingCalls

Returned(result) == [api EXCEPT !.pc = "returned", !.result = result]

Raised == [api EXCEPT !.pc = "raised"]

CallAdaptiveStepSize ==
    /\ api.pc = "pending" /\ api.fn = "adaptive_step_size"
    /\ api' = Returned(adaptive_step_size(api.args[1], api.args[2]))
    /\ UNCHANGED <<prec, gen, drv, tampered>>

CallAdaptivePrecision ==
    /\ api.pc = "pending" /\ api.fn = "adaptive_precision"
    /\ api' = Returned(adaptive_precision(api.args[1], api.args[2]))
    /\ UNCHANGED <<prec, gen, drv, tampered>>

CallLocalPrimeDensity ==
    /\ api.pc = "pending" /\ api.fn = "local_prime_density"
    /\ api' = Returned(local_prime_density(api.args[1], api.args[2]))
    /\ UNCHANGED <<prec, gen, drv, tampered>>

CallDensityInRange ==
    /\ api.pc = "pending" /\ api.fn = "density_in_range"
    /\ api' = IF density_in_range_raises(api.args[1], api.args[2],
                                         api.args[3])
              THEN Raised
              ELSE Returned(density_in_range(api.args[1], api.args[2],
                                             api.args[3]))
    /\ UNCHANGED <<prec, gen, drv, tampered>>

CallIsAdmissible ==
    /\ api.pc = "pending" /\ api.fn = "is_admissible"
    /\ api' = Returned(is_admissible(api.args[1]))
    /\ UNCHANGED <<prec, gen, drv, tampered>>

CallNextAdmissible ==
    /\ api.pc = "pending" /\ api.fn = "next_admissible"
    /\ api' = Returned(next_admissible(api.args[1]))
    /\ UNCHANGED <<prec, gen, drv, tampered>>

\* num_bands = 0 raises ZeroDivisionError at line 139
CallPrioritizeDeltaBands ==
    /\ api.pc = "pending" /\ api.fn = "prioritize_delta_bands"
    /\ api' = IF api.args[4] = 0
              THEN Raised
              ELSE Returned(prioritize_delta_bands(api.args[1], api.args[2],
                                                   api.args[3], api.args[4]))
    /\ UNCHANGED <<prec, gen, drv, tampered>>

NextApi ==
    \/ CallAdaptiveStepSize
    \/ CallAdaptivePrecision
    \/ CallLocalPrimeDensity
    \/ CallDensityInRange
    \/ CallIsAdmissible
    \/ CallNextAdmissible
    \/ CallPrioritizeDeltaBands

SpecApi == InitApi /\ [][NextApi]_vars

----------------------------------------------------------------------------
(* Properties *)

\* adaptive_precision of the call that created generator g
Required(g) == adaptive_precision(g.mag, g.N)

\* generator g has entered its body
Started(g) == g.pc # "new" /\ ~(g.pc = "closed" /\ g.origp = 0)

\* a record without its amplitude
StripAmplitude(r) ==
    [candidate |-> r.candidate, delta |-> r.delta, residue |-> r.residue,
     density |-> r.density, band_id |-> r.band_id, step |-> r.step]

IsPrime(n) == n > 1 /\ \A d \in 2..(n - 1) : n % d # 0

PrimeFactors(n) == {p \in 2..n : n % p = 0 /\ IsPrime(p)}

\* n is the product of two primes
Semiprime(n) == \E p \in PrimeFactors(n) : IsPrime(n \div p)

\* the records a generator in state g yields from here to exhaustion, when
\* nothing else touches the register
RECURSIVE Drain(_, _)
Drain(g, p) ==
    LET r == GenNext(g, p)
    IN IF Suspended(r.gen) THEN <<r.gen.last>> \o Drain(r.gen, r.prec)
       ELSE <<>>

\* the number of candidates not dividing n that the sequence seq holds before
\* its first record of value f (in all of seq when f is not in it)
RECURSIVE NonDividingBefore(_, _, _)
NonDividingBefore(seq, n, f) ==
    IF seq = <<>> \/ Head(seq).candidate = f THEN 0
    ELSE (IF n % Head(seq).candidate = 0 THEN 0 ELSE 1)
         + NonDividingBefore(Tail(seq), n, f)

\* C1: every record yielded by generate_z5d_candidates, on the positive
\* branch (also after a next_admissible jump) and on the negative branch,
\* carries a candidate that is_admissible accepts.
C1_EmittedAdmissible ==
    \A i \in Gens :
        gen[i].count > 0 => is_admissible(gen[i].last.candidate)

\* a negative-branch record on generator 1 while generator 2 holds a positive
\* record that was reached by a jump over an inadmissible value
C1_Witness ==
    /\ gen[1].pc = "neg"
    /\ gen[1].last.delta < 0
    /\ is_admissible(gen[1].last.candidate)
    /\ gen[2].pc = "pos"
    /\ gen[2].last.step = 1
    /\ gen[2].last.delta > 0
    /\ ~is_admissible(gen[2].last.candidate - 1)

\* C2: when z5d_pipeline_search returns a pair (p, q), p is the candidate
\* the pipeline just emitted, N mod p = 0 and p * q = N; when it returns
\* otherwise the sequence was exhausted or the budget was reached and the
\* result is None.
C2_SearchResult ==
    drv.pc = "returned" =>
        IF drv.result # NoResult
        THEN /\ gen[1].count > 0
             /\ drv.result[1] = gen[1].last.candidate
             /\ drv.N % drv.result[1] = 0
             /\ drv.result[1] * drv.result[2] = drv.N
        ELSE \/ gen[1].pc = "done"
             \/ drv.tested >= drv.max_candidates

\* the search returned a pair after at least one candidate failed the test
C2_Witness ==
    /\ drv.pc = "returned"
    /\ drv.result # NoResult
    /\ drv.tested > 0
    /\ drv.result[1] * drv.result[2] = drv.N

\* the hypotheses of C3 for the prime factor f of drv.N
C3_Hypotheses(f) ==
    /\ f > 7 /\ drv.N % f = 0 /\ IsPrime(f)
    /\ Semiprime(drv.N)
    /\ \E j \in 1..Len(gen[1].bands) :
          /\ gen[1].bands[j].delta_start <= f - isqrt(drv.N)
          /\ f - isqrt(drv.N) <= gen[1].bands[j].delta_end
    /\ \A j \in 1..Len(gen[1].bands) :
          BandStep(gen[1].bands, j - 1) = 1
    /\ NonDividingBefore(
           Drain(NewGen(0, drv.N, isqrt(drv.N), gen[1].delta_max,
                        gen[1].num_bands, TRUE), DefaultDps),
           drv.N, f) < drv.max_candidates

\* C3: if N = p * q has a prime factor f > 7 whose offset f - isqrt(N) lies
\* in some band's range [delta_start, delta_end], every band is traversed
\* with step 1 and fewer than max_candidates non-dividing candidates precede
\* f, then z5d_pipeline_search returns a pair made of exactly the two prime
\* factors; for N = 1073217479, delta_max = 5000, num_bands = 3 and
\* max_candidates = 10000 it returns {32749, 32771}.
C3_FindsFactors ==
    drv.pc = "returned" =>
        /\ drv.N <= MaxN =>
              \A f \in 8..drv.N :
                  C3_Hypotheses(f) =>
                      /\ drv.result # NoResult
                      /\ {drv.result[1], drv.result[2]}
                             = {f, drv.N \div f}
        /\ drv.N = Gate1N =>
              /\ drv.result # NoResult
              /\ {drv.result[1], drv.result[2]} = {32749, 32771}

\* the gate-1 search has returned its pair after testing other candidates
C3_Witness ==
    /\ drv.pc = "returned"
    /\ drv.N = Gate1N
    /\ drv.tested > 0
    /\ drv.result = <<32771, 32749>>

\* the arguments the specification calls malformed
Malformed(g) == (g.mag = 0 /\ g.N < 4) \/ g.num_bands <= 0 \/ g.delta_max <= 0

\* C4: on a malformed input (N < 4, num_bands <= 0 or delta_max <= 0)
\* generate_z5d_candidates raises a configuration error before it yields:
\* no pull returns a record, and the first pull ends in the error.
C4_MalformedRaises ==
    \A i \in Gens :
        Malformed(gen[i]) =>
            /\ gen[i].count = 0
            /\ gen[i].pc \in {"new", "error", "closed"}

\* the bands, read as half-open intervals, that hold offset o
BandsHolding(bands, o) ==
    {j \in 1..Len(bands) :
        bands[j].delta_start <= o /\ o < bands[j].delta_end}

\* C5: for delta_max >= 1 and num_bands >= 1 the bands returned by
\* prioritize_delta_bands, read as half-open intervals
\* [delta_start, delta_end), hold every offset of [0, delta_max) exactly
\* once.
C5_Coverage ==
    \A i \in Gens :
        (Started(gen[i]) /\ gen[i].delta_max >= 1 /\ gen[i].num_bands >= 1) =>
            \A o \in 0..(gen[i].delta_max - 1) :
                Cardinality(BandsHolding(gen[i].bands, o)) = 1

\* C6: in the list returned by prioritize_delta_bands, of any two
\* consecutive bands the first has a density greater than or equal to the
\* second's.
C6_DensityDescending ==
    \A i \in Gens :
        \A j \in 1..(Len(gen[i].bands) - 1) :
            gen[i].bands[j].density >= gen[i].bands[j + 1].density

\* the sort moved a band of larger offsets in front of a band of smaller ones
C6_Witness ==
    /\ Len(gen[1].bands) >= 2
    /\ gen[1].bands[1].delta_start > gen[1].bands[2].delta_start
    /\ gen[1].bands[1].density > gen[1].bands[2].density

\* C7: on every exit path of a generator (exhaustion, an error raised in its
\* body, close() after an early stop) the register is left at the value it
\* had before the generator's first pull.
C7_PrecisionRestored ==
    [][\A i \in Gens :
          /\ (gen[i].pc = "new" /\ Started(gen'[i])) => gen'[i].origp = prec
          /\ (~Finished(gen[i]) /\ Finished(gen'[i])) =>
                prec' = IF gen[i].pc = "new" THEN prec ELSE gen[i].origp]_vars

\* generator 1 was closed after yielding and generator 2 ran dry, both under
\* a precision of their own, and the register is back at its initial value
C7_Witness ==
    /\ gen[1].pc = "closed" /\ gen[1].count > 0
    /\ gen[2].pc = "done" /\ gen[2].count > 0
    /\ Required(gen[1]) # DefaultDps
    /\ ~tampered
    /\ prec = DefaultDps

\* the embedding and the latest amplitude of generator g were computed under
\* the precision g's call requires
OwnPrecision(g) ==
    /\ Started(g) => g.emb_dps = Required(g)
    /\ (g.count > 0 /\ g.ranker) => g.last.amplitude[3] = Required(g)

\* C8: within one search the embedding of sqrt_N and the amplitude of every
\* emitted candidate are computed under adaptive_precision(N), whatever the
\* consumer does between pulls.
C8_PrecisionHeld ==
    gen[2].pc = "new" => OwnPrecision(gen[1])

\* C9: when two generators with different required precisions are pulled in
\* any interleaving, each computes every embedding and amplitude under its
\* own adaptive_precision(N).
C9_PrecisionIsolated ==
    (~tampered /\ Required(gen[1]) # Required(gen[2])) =>
        \A i \in Gens : OwnPrecision(gen[i])

\* C10: with every amplitude replaced by 0 the generator yields the same
\* sequence of records in all other fields: after equally many records the
\* latest ones agree outside the amplitude, and neither sequence ends before
\* the other.
C10_AmplitudeNeverGates ==
    (~gen[2].ranker) =>
        /\ gen[1].count = gen[2].count =>
              StripAmplitude(gen[1].last) = StripAmplitude(gen[2].last)
        /\ gen[1].pc = "done" => gen[2].count <= gen[1].count
        /\ gen[2].pc = "done" => gen[1].count <= gen[2].count
        /\ gen[2].count > 0 => gen[2].last.amplitude = ZeroAmplitude

\* both runs have yielded the same two or more records and differ in the
\* amplitude only
C10_Witness ==
    /\ ~gen[2].ranker
    /\ gen[1].count = gen[2].count
    /\ gen[1].count >= 2
    /\ gen[1].last.amplitude # gen[2].last.amplitude
    /\ StripAmplitude(gen[1].last) = StripAmplitude(gen[2].last)

\* generators g and h were created by calls with the same arguments
SameCall(g, h) ==
    /\ g.mag = h.mag /\ g.N = h.N /\ g.sqrt_N = h.sqrt_N
    /\ g.delta_max = h.delta_max /\ g.num_bands = h.num_bands
    /\ g.ranker = h.ranker

\* C11: two generate_z5d_candidates instances created with the same
\* arguments yield identical sequences: after equally many records the
\* latest ones agree in every field (amplitude included), and neither
\* sequence ends before the other.
C11_Deterministic ==
    (~tampered /\ SameCall(gen[1], gen[2])) =>
        /\ gen[1].count = gen[2].count => gen[1].last = gen[2].last
        /\ gen[1].pc = "done" => gen[2].count <= gen[1].count
        /\ gen[2].pc = "done" => gen[1].count <= gen[2].count

\* C12: for max_candidates >= 1, z5d_pipeline_search tests at most
\* max_candidates candidates for divisibility (every record it pulls is
\* tested once), and once the failed tests reach max_candidates it has
\* returned None and pulls no more.
C12_BudgetEnforced ==
    (drv.pc # "idle" /\ drv.max_candidates >= 1) =>
        /\ gen[1].count <= drv.max_candidates
        /\ drv.tested <= gen[1].count
        /\ drv.tested >= drv.max_candidates =>
              /\ drv.pc = "returned"
              /\ drv.result = NoResult

\* the budget of two is used up on a generator that still had candidates
C12_Witness ==
    /\ drv.pc = "returned"
    /\ drv.max_candidates = 2
    /\ drv.tested = 2
    /\ drv.result = NoResult
    /\ Suspended(gen[1])

\* every record of the call that created generator g, in order
AllRecords(g) ==
    Drain(NewGen(g.mag, g.N, g.sqrt_N, g.delta_max, g.num_bands, g.ranker),
          DefaultDps)

\* C13: whenever the generator has emitted the positive candidate
\* sqrt_N + d at an offset d > 0, and sqrt_N - d is greater than 1 and
\* admissible, the sequence of the call holds a record of value sqrt_N - d
\* and delta -d in the same band.
C13_NegativeSibling ==
    \A i \in Gens :
        LET g == gen[i]
            d == g.last.delta
        IN (/\ g.pc = "pos" /\ d > 0
            /\ GreaterThanOne(g.mag, g.sqrt_N - d)
            /\ is_admissible(g.sqrt_N - d)) =>
               \E k \in 1..Len(AllRecords(g)) :
                   /\ AllRecords(g)[k].candidate = g.sqrt_N - d
                   /\ AllRecords(g)[k].delta = -d
                   /\ AllRecords(g)[k].band_id = g.last.band_id

\* the direct call of function fn has returned
ApiReturned(fn) == api.fn = fn /\ api.pc = "returned"

ClaimedStep(density, base_step) ==
    IF density <= 0
    THEN 10 * base_step
    ELSE Min(Max(1, (base_step * DensityScale) \div (density * 50)),
             10 * base_step)

\* C15: for every base_step >= 1, adaptive_step_size returns a positive
\* integer equal to 10 * base_step when density <= 0, and otherwise equal to
\* max(1, floor(base_step / (density * 50))) clamped to at most
\* 10 * base_step.
C15_StepValue ==
    ApiReturned("adaptive_step_size") =>
        /\ api.result > 0
        /\ api.result = ClaimedStep(api.args[1], api.args[2])

\* greatest common divisor, by Euclid's algorithm
RECURSIVE GCD(_, _)
GCD(a, b) == IF b = 0 THEN a ELSE GCD(b, a % b)

SearchFifteen ==
    /\ drv.pc = "returned"
    /\ drv.N = 15 /\ drv.max_candidates >= 1
    /\ gen[1].delta_max >= 2 /\ gen[1].num_bands >= 1

BitsOf(mag, n) ==
    IF mag = 0
    THEN CHOOSE k \in 0..31 : n < 2 ^ k /\ (k = 0 \/ n >= 2 ^ (k - 1))
    ELSE BaseBits(mag)

\* C18: adaptive_precision(N) equals max(100, bit_length(N) * 4 + 200); two
\* arguments of the same bit length get the same precision and an argument
\* of smaller bit length never gets a larger one; the precision is at least
\* 708 for a 127-bit N and at least 1520 for a 330-bit N.
C18_Precision ==
    ApiReturned("adaptive_precision") =>
        LET bits == BitsOf(api.args[1], api.args[2])
        IN /\ api.result = Max(100, bits * 4 + 200)
           /\ \A m \in AllMags, n \in 0..MaxArg :
                 /\ BitsOf(m, n) = bits =>
                       adaptive_precision(m, n) = api.result
                 /\ BitsOf(m, n) <= bits =>
                       adaptive_precision(m, n) <= api.result
           /\ bits = 127 => api.result >= 708
           /\ bits = 330 => api.result >= 1520

\* the precision of a 330-bit argument has been returned
C18_Witness ==
    /\ ApiReturned("adaptive_precision")
    /\ BitsOf(api.args[1], api.args[2]) = 330
    /\ api.result = 1520

\* C19: the density oracle never raises on a domain edge:
\* local_prime_density(x) returns 0 for every x < 2, and
\* density_in_range(center, delta) returns a value >= 0 without raising for
\* every integer center and every delta >= 0.
C19_DensityTotal ==
    /\ (/\ ApiReturned("local_prime_density")
        /\ api.args[1] = 0 /\ api.args[2] < 2) => api.result = 0
    /\ (api.fn = "local_prime_density" /\ api.pc # "pending") =>
          api.pc = "returned" /\ api.result >= 0
    /\ (api.fn = "density_in_range" /\ api.pc # "pending") =>
          api.pc = "returned" /\ api.result >= 0

\* the arguments C20 speaks of: N >= 4, delta_max >= 1, num_bands >= 1
WellFormed(g) ==
    /\ g.mag > 0 \/ g.N >= 4
    /\ g.delta_max >= 1
    /\ g.num_bands >= 1

\* a pull on a generator suspended at a positive yield either leaves the
\* band or moves the band's offset strictly forward
OffsetAdvances ==
    \A i \in Gens :
        (/\ gen[i].pc = "pos" /\ WellFormed(gen[i])
         /\ Suspended(gen'[i])
         /\ gen'[i].band_idx = gen[i].band_idx) =>
            gen'[i].current_delta > gen[i].current_delta

\* a pull on an exhausted generator yields nothing and leaves it exhausted
ExhaustedStays ==
    \A i \in Gens : gen[i].pc = "done" => gen'[i] = gen[i]

NextRecord(i) == gen[i].count > 0 /\ gen'[i].count > gen[i].count

\* C21: the pipeline is a single pass without backtracking.  Of any two
\* consecutive records the later has the same or a greater band_id; within
\* one band a positive record follows a positive one at a strictly greater
\* delta, a negative record follows a positive one at a strictly greater
\* absolute delta, and a positive record follows a negative one at no
\* smaller absolute delta: the deltas of the positive records of a band are
\* strictly increasing.
C21_SinglePass ==
    [][\A i \in Gens :
          NextRecord(i) =>
              LET r == gen[i].last
                  s == gen'[i].last
              IN /\ s.band_id >= r.band_id
                 /\ (s.band_id = r.band_id /\ r.delta >= 0) =>
                        Abs(s.delta) > r.delta
                 /\ (s.band_id = r.band_id /\ r.delta < 0) =>
                        s.delta >= -r.delta]_vars

\* generator 1 has yielded a record of the first band and then two positive
\* records of the second band, the later at the greater delta
C21_Witness ==
    /\ gen[1].pc = "pos" /\ gen[1].count = 3
    /\ AllRecords(gen[1])[1].band_id = 0
    /\ AllRecords(gen[1])[2].band_id = 1
    /\ AllRecords(gen[1])[2].delta >= 0
    /\ gen[1].last.band_id = 1
    /\ gen[1].last.delta > AllRecords(gen[1])[2].delta

\* band_width of a call with the arguments of g (num_bands # 0)
BandWidth(g) == g.delta_max \div g.num_bands

\* the interval the loop of prioritize_delta_bands builds at index i
Interval(g, i) ==
    <<i * BandWidth(g), Min((i + 1) * BandWidth(g), g.delta_max)>>

\* the index at which the loop built band b: delta_start = i * band_width
OriginalIndex(g, b) == b.delta_start \div BandWidth(g)

\* the arguments of a direct call of prioritize_delta_bands
BandsCall == [delta_max |-> api.args[3], num_bands |-> api.args[4]]

\* C22: prioritize_delta_bands breaks density ties by the original index:
\* of two bands of equal density the one built at the smaller index comes
\* first; the band at list position i carries priority i; and every band
\* keeps the delta_start and delta_end it was built with, each built
\* interval appearing once.
C22_TieBreak ==
    (ApiReturned("prioritize_delta_bands") /\ api.args[4] >= 1) =>
        LET g == BandsCall
            bands == api.result
            n == Len(bands)
            at == [j \in 1..n |-> OriginalIndex(g, bands[j])]
        IN /\ n = g.num_bands
           /\ \A j \in 1..n : bands[j].priority = j - 1
           /\ BandWidth(g) # 0 =>
                 /\ \A j \in 1..n :
                       /\ at[j] \in 0..(n - 1)
                       /\ <<bands[j].delta_start, bands[j].delta_end>>
                             = Interval(g, at[j])
                 /\ \A j \in 1..n, k \in 1..n :
                       j < k =>
                          /\ at[j] # at[k]
                          /\ bands[j].density = bands[k].density
                                => at[j] < at[k]
           /\ BandWidth(g) = 0 =>
                 \A j \in 1..n :
                     <<bands[j].delta_start, bands[j].delta_end>>
                        = Interval(g, 0)

\* two bands of equal density stand in the order they were built in
C22_Witness ==
    /\ ApiReturned("prioritize_delta_bands")
    /\ Len(api.result) = 2
    /\ api.result[1].density = api.result[2].density
    /\ api.result[1].delta_start < api.result[2].delta_start
    /\ api.result[1].priority = 0 /\ api.result[2].priority = 1

\* C23: for delta_max >= 1 and num_bands >= 1 prioritize_delta_bands
\* returns exactly num_bands bands, each with
\* 0 <= delta_start < delta_end <= delta_max; all bands have the same width
\* except possibly the last built one, which may be shorter.
C23_BandShape ==
    \A i \in Gens :
        LET g == gen[i]
        IN (Started(g) /\ g.delta_max >= 1 /\ g.num_bands >= 1) =>
              /\ Len(g.bands) = g.num_bands
              /\ \A j \in 1..Len(g.bands) :
                    /\ 0 <= g.bands[j].delta_start
                    /\ g.bands[j].delta_start < g.bands[j].delta_end
                    /\ g.bands[j].delta_end <= g.delta_max
              /\ \A j \in 1..Len(g.bands) :
                    LET width == g.bands[j].delta_end - g.bands[j].delta_start
                        last == \A k \in 1..Len(g.bands) :
                                    g.bands[k].delta_start
                                       <= g.bands[j].delta_start
                    IN IF last THEN width <= BandWidth(g)
                       ELSE width = BandWidth(g)

\* C24: every emitted record is consistent with the call and with the band
\* it names: candidate = sqrt_N + delta, residue = candidate mod 210, and
\* density and step are the density and the adaptive step of the band at
\* position band_id of the prioritized list; also for a positive candidate
\* reached by a next_admissible jump and for a negative candidate.
C24_RecordConsistent ==
    \A i \in Gens :
        LET g == gen[i]
            r == g.last
        IN g.count > 0 =>
              /\ r.candidate = g.sqrt_N + r.delta
              /\ r.residue = r.candidate % 210
              /\ r.band_id \in 0..(Len(g.bands) - 1)
              /\ r.density = g.bands[r.band_id + 1].density
              /\ r.step = adaptive_step_size(g.bands[r.band_id + 1].density, 1)

\* generator 1 holds a negative record of a band of step 2, generator 2 a
\* positive record of the second band that a jump has reached
C24_Witness ==
    /\ gen[1].pc = "neg" /\ gen[1].last.delta < 0
    /\ gen[1].last.step = 2
    /\ gen[1].last.candidate = gen[1].sqrt_N - gen[1].current_delta
    /\ gen[2].pc = "pos" /\ gen[2].last.band_id = 1
    /\ gen[2].last.delta > gen[2].bands[2].delta_start
    /\ \A v \in (gen[2].sqrt_N + gen[2].bands[2].delta_start)
                    ..(gen[2].last.candidate - 1) : ~is_admissible(v)

\* the wheel rejects every even number
WheelRejectsEven == \A r \in 0..(WHEEL_MODULUS - 1) : r % 2 = 0 => ~is_admissible(r)

\* C25: a band whose step is odd (step 1 in particular) emits no candidate
\* with a negative delta when the wheel rejects every even number: the
\* negative candidate sqrt_N - (d + step) tried after an admissible
\* sqrt_N + d is even.  A stream whose bands all have odd steps has
\* delta >= 0 throughout.
C25_OddStepNoNegative ==
    WheelRejectsEven =>
        \A i \in Gens :
            LET g == gen[i]
            IN /\ (g.count > 0 /\ g.last.step % 2 = 1) => g.last.delta >= 0
               /\ (g.pc = "pos" /\ BandStep(g.bands, g.band_idx) % 2 = 1) =>
                     (g.sqrt_N - (g.current_delta
                                    + BandStep(g.bands, g.band_idx))) % 2 = 0

\* a band of step 3: after the admissible sqrt_N + d the negative side was
\* tried at d + 3 <= delta_max, found even, and the band went on to its
\* next positive candidate
C25_Witness ==
    /\ gen[1].pc = "pos" /\ gen[1].count = 2
    /\ gen[1].last.step = 3
    /\ AllRecords(gen[1])[1].band_id = gen[1].last.band_id
    /\ AllRecords(gen[1])[1].delta + 3 <= gen[1].delta_max
    /\ ~is_admissible(gen[1].sqrt_N - (AllRecords(gen[1])[1].delta + 3))
    /\ gen[2].pc = "pos" /\ gen[2].count = 2 /\ gen[2].last.step = 1

\* the positive records of band b in the sequence recs
PositiveOfBand(recs, b) ==
    SelectSeq(recs, LAMBDA r : r.band_id = b /\ r.delta >= 0)

\* next_admissible returns the least admissible value >= x
NextAdmissibleIsLeast ==
    \A x \in 0..WHEEL_MODULUS :
        /\ next_admissible(x) >= x /\ is_admissible(next_admissible(x))
        /\ \A v \in x..(next_admissible(x) - 1) : ~is_admissible(v)

\* the positive records of the bands of step 1 in the sequence of the call
\* that created g are the admissible values of the bands' ranges, in
\* strictly increasing order, and g has yielded that whole sequence
StepOneComplete(g) ==
    LET recs == AllRecords(g)
    IN \A b \in 0..(Len(g.bands) - 1) :
           BandStep(g.bands, b) = 1 =>
               LET pos == PositiveOfBand(recs, b)
                   low == g.sqrt_N + g.bands[b + 1].delta_start
                   high == g.sqrt_N + g.bands[b + 1].delta_end
               IN /\ g.count = Len(recs)
                  /\ {pos[k].candidate : k \in 1..Len(pos)}
                        = {v \in low..high : is_admissible(v)}
                  /\ \A k \in 1..(Len(pos) - 1) :
                        pos[k].candidate < pos[k + 1].candidate

\* C26: when next_admissible returns the least admissible value >= x, the
\* positive traversal of a band of step 1, run to exhaustion, has emitted
\* every admissible integer v with
\* sqrt_N + delta_start <= v <= sqrt_N + delta_end, each once, in strictly
\* increasing order.
C26_StepOneComplete ==
    [][NextAdmissibleIsLeast =>
          \A i \in Gens :
              (gen[i].pc # "done" /\ gen'[i].pc = "done") =>
                  StepOneComplete(gen'[i])]_vars

\* a band of step 1 was traversed to its end: it emitted two admissible
\* values, the second reached by a jump and lying on the band's last offset
C26_Witness ==
    /\ gen[1].pc = "done" /\ gen[1].count = 2
    /\ gen[1].last.step = 1 /\ gen[1].last.band_id = 0
    /\ Len(gen[1].bands) = 1
    /\ gen[1].last.delta = gen[1].bands[1].delta_end
    /\ ~is_admissible(gen[1].last.candidate - 1)
    /\ is_admissible(gen[1].last.candidate - 2)

\* C27: no candidate value is emitted more than once during one traversal:
\* the record a generator has just yielded differs in its candidate from
\* every record it yielded before, and the offset ranges
\* [delta_start, delta_end] traversed by two distinct bands share no offset,
\* the boundary i * band_width included.
C27_NoDuplicates ==
    \A i \in Gens :
        LET g == gen[i]
            recs == AllRecords(g)
        IN /\ (Suspended(g) /\ g.count <= Len(recs)) =>
                 \A j \in 1..(g.count - 1) :
                     recs[j].candidate # g.last.candidate
           /\ (Started(g) /\ g.delta_max >= 1 /\ g.num_bands >= 1) =>
                 \A j, k \in 1..Len(g.bands) :
                     j < k =>
                        (g.bands[j].delta_start..g.bands[j].delta_end)
                           \cap (g.bands[k].delta_start..g.bands[k].delta_end)
                           = {}

\* C28: once two generators with different required precisions have both
\* finished (exhausted or closed), the register holds the value it had
\* before either was first pulled, whatever the order of their first pulls
\* and of their completions.
C28_RestoredAfterBoth ==
    (/\ ~tampered
     /\ Required(gen[1]) # Required(gen[2])
     /\ \A i \in Gens : gen[i].pc \in {"done", "closed"}) =>
        prec = DefaultDps

\* C29: for N >= 4 a pair (p, q) returned by z5d_pipeline_search is a
\* non-trivial factorisation, 1 < p < N and 1 < q < N, whatever delta_max,
\* num_bands and max_candidates are.
C29_NonTrivial ==
    (drv.pc = "returned" /\ drv.result # NoResult /\ drv.N >= 4) =>
        /\ 1 < drv.result[1] /\ drv.result[1] < drv.N
        /\ 1 < drv.result[2] /\ drv.result[2] < drv.N

\* C30: every emitted record tagged with band_id b has its absolute offset
\* inside the range of the band at position b:
\* delta_start <= |delta| <= delta_end, for positive and for negative
\* candidates alike.
C30_OffsetInBand ==
    \A i \in Gens :
        LET g == gen[i]
            r == g.last
        IN g.count > 0 =>
              /\ g.bands[r.band_id + 1].delta_start <= Abs(r.delta)
              /\ Abs(r.delta) <= g.bands[r.band_id + 1].delta_end

====
